---------------------------- MODULE Spec2Model ----------------------------
(***************************************************************************)
(* A model of the Soko backend (src/backend/server.js): the Express        *)
(* handlers over the Mongoose collections User, Product, Cart, Order and   *)
(* Banner.                                                                 *)
(*                                                                         *)
(* Every handler is an async function: it runs synchronously up to an      *)
(* `await` on a database operation, and other requests run while it waits. *)
(* A handler is therefore cut at its database operations: one action per   *)
(* database operation, holding the synchronous code that leads to it.      *)
(*                                                                         *)
(* `doc.save()` of a loaded Mongoose document does not write the document  *)
(* back as a whole.  It sends the changes made since the load:             *)
(*   - an assignment to a field of an array element                        *)
(*     (products[i].quantity) is a $set of that position, accepted only    *)
(*     while the stored version key __v is the one that was loaded, and    *)
(*     leaving __v as it is;                                               *)
(*   - a push is a $push, accepted whatever __v is, and increments __v;    *)
(*   - an assignment of the whole array is a $set of the array, accepted   *)
(*     only while __v is the one loaded, and increments __v;               *)
(*   - no change at all sends nothing.                                     *)
(* A refused update rejects save() with a VersionError, which the          *)
(* handlers' catch blocks turn into a 500 response.                        *)
(***************************************************************************)
EXTENDS Integers, Sequences, FiniteSets

\* ------------------------------------------------------------------ bounds
\* Concurrent requests the server holds at once.
NReq == 2
\* Requests issued in one behaviour.
MaxOps == 2

Reqs == 1..NReq

\* ------------------------------------------------------------------ inputs
UserIds == {"u1", "u2"}
\* An ObjectId is 12 bytes; its toString() is 24 lower-case hex digits.  The
\* strings "p1" and "p2" stand for two such lower-case strings, and "P1" for
\* the upper-case spelling of "p1", which casts to the same ObjectId.
ObjectIds == {"p1", "p2"}
NoProductId == "undefined"
ProductIdInputs == {"p1", "P1", "p2", NoProductId}
QuantityInputs == {-1, 0, 1, 2}

NoResponse == [op |-> "none", role |-> "none", ok |-> FALSE, status |-> 0]
NoRegister == [pc |-> "idle", email |-> "none", role |-> "none"]

NoToken == [id |-> "none", role |-> "none", valid |-> FALSE]
BadToken == [id |-> "forged", role |-> "admin", valid |-> FALSE]

VARIABLES
  users,      \* the User collection: a sequence of [email, password, role]
  tokens,     \* the tokens jwt.sign has issued: [id, role, valid]
  products,   \* the Product collection: a sequence of [exists, featured, createdBy]
  banners,    \* the Banner collection: a sequence of [active, order]
  last,       \* the last response of a catalog, banner, or login request
  reg,        \* the register requests in flight
  carts,      \* the Cart collection, in insertion order
  orders,     \* the Order collection, in insertion order
  pc,         \* where each request slot stands
  loc,        \* each request slot's local variables and its response
  ops,        \* requests issued so far
  lastAdd,    \* history: per user, the last addOrMerge that ran on its own
  acked,      \* history: per user and product, quantity accepted by addOrMerge
  ordered,    \* history: per user and product, quantity copied into orders
  halfDone    \* history: orders whose request stopped before clearing the cart

dbVars == <<carts, orders>>
histVars == <<lastAdd, acked, ordered, halfDone>>
cartVars == <<carts, orders, pc, loc, ops, lastAdd, acked, ordered, halfDone>>
catDb == <<users, tokens, products, banners, reg>>
catVars == <<users, tokens, products, banners, last, reg>>
vars == <<users, tokens, products, banners, last, reg,
          carts, orders, pc, loc, ops, lastAdd, acked, ordered, halfDone>>

\* ------------------------------------------------------------- conversions
\* Mongoose's cast of a string to an ObjectId: hex digits of either case.
CastObjectId(s) == IF s = "P1" THEN "p1" ELSE s

\* ObjectId.prototype.toString: the lower-case hex string.
ToString(oid) == oid

\* ------------------------------------------------------------------- auth
\* auth: no token, or a token jwt.verify rejects, is a 401.
auth(tok) == IF tok = NoToken THEN 401
             ELSE IF ~tok.valid THEN 401
             ELSE 0

\* ------------------------------------------------------------------- carts
Line(oid, q) == [product |-> oid, quantity |-> q]

\* Cart.findOne({ user }): the first matching document of the collection scan,
\* 0 when there is none.
FindOneCart(u) ==
  IF \E i \in 1..Len(carts) : carts[i].user = u
  THEN CHOOSE i \in 1..Len(carts) :
         /\ carts[i].user = u
         /\ \A j \in 1..(i - 1) : carts[j].user # u
  ELSE 0

\* cart.products.findIndex(p => p.product.toString() === productId), 0 for -1.
FindIndex(lines, productId) ==
  IF \E i \in 1..Len(lines) : ToString(lines[i].product) = productId
  THEN CHOOSE i \in 1..Len(lines) :
         /\ ToString(lines[i].product) = productId
         /\ \A j \in 1..(i - 1) : ToString(lines[j].product) # productId
  ELSE 0

\* cart.products.filter(p => p.product.toString() !== req.params.productId)
RECURSIVE Filter(_, _)
Filter(lines, productId) ==
  IF lines = <<>> THEN <<>>
  ELSE IF ToString(Head(lines).product) # productId
       THEN <<Head(lines)>> \o Filter(Tail(lines), productId)
       ELSE Filter(Tail(lines), productId)

\* A check that forgets the cart without lines.
CartIsMissing(c, lines) == c = 0

\* !cart || cart.products.length === 0
CartIsEmpty(c, lines) == c = 0 \/ Len(lines) = 0

\* A copy that leaves the quantity out, so that each item counts once.
OrderItemsNoQuantity(lines) == [i \in 1..Len(lines) |-> Line(lines[i].product, 1)]

\* cart.products.map(p => ({ product: p.product, quantity: p.quantity }))
OrderItems(lines) == [i \in 1..Len(lines) |-> Line(lines[i].product, lines[i].quantity)]

\* The sum of the quantities of the lines of a product.
RECURSIVE QtyOf(_, _)
QtyOf(lines, oid) ==
  IF lines = <<>> THEN 0
  ELSE (IF Head(lines).product = oid THEN Head(lines).quantity ELSE 0)
       + QtyOf(Tail(lines), oid)

\* The number of lines of a product.
CountOf(lines, oid) == Cardinality({i \in 1..Len(lines) : lines[i].product = oid})

\* ------------------------------------------------------------ request slots
Idle == [kind |-> "none", user |-> "none", productId |-> NoProductId, quantity |-> 0,
         cart |-> 0, products |-> <<>>, v |-> 0, order |-> 0,
         alone |-> FALSE, status |-> 0]

\* No earlier addOrMerge of the user to follow.
NoAdd == [product |-> "none", quantity |-> 0, fresh |-> FALSE]

\* A new request takes the lowest free slot: the slots are interchangeable.
Free(r) == pc[r] = "idle" /\ \A s \in 1..(r - 1) : pc[s] # "idle"

\* The requests of user u that await the database.
InFlight(u) == {r \in Reqs : pc[r] # "idle" /\ loc[r].user = u}

\* A request that fails before its first database operation.
Reject(r, kind, code) ==
  /\ last' = [op |-> kind, role |-> "none", ok |-> FALSE, status |-> code]
  /\ ops' = ops + 1
  /\ UNCHANGED <<dbVars, pc, loc, histVars>>

\* A request of user u passes its checks and reads the user's cart.
Begin(r, kind, u, productId, q, next) ==
  LET c == FindOneCart(u) IN
  /\ loc' = [s \in Reqs |->
               IF s = r
               THEN [kind |-> kind, user |-> u, productId |-> productId,
                     quantity |-> q, cart |-> c,
                     products |-> IF c = 0 THEN <<>> ELSE carts[c].products,
                     v |-> IF c = 0 THEN 0 ELSE carts[c].v,
                     order |-> 0, alone |-> InFlight(u) = {}, status |-> 0]
               ELSE IF s \in InFlight(u) THEN [loc[s] EXCEPT !.alone = FALSE]
               ELSE loc[s]]
  /\ pc' = [pc EXCEPT ![r] = next]
  /\ ops' = ops + 1
  /\ lastAdd' = [lastAdd EXCEPT ![u] =
                   IF kind = "add" /\ InFlight(u) = {} THEN @
                   ELSE NoAdd]
  /\ UNCHANGED <<last, dbVars, acked, ordered, halfDone>>

\* The response of a request whose last database operation has finished.
Respond(r) ==
  /\ pc' = [pc EXCEPT ![r] = "idle"]
  /\ ops' = ops

\* -------------------------------------------------- POST /api/cart (addOrMerge)
\* Lines 279-286: auth, the validation of the body, Cart.findOne.
PostCartFind(r, tok, productId, quantity) ==
  /\ Free(r)
  /\ ops < MaxOps
  /\ UNCHANGED catDb
  /\ IF auth(tok) # 0 THEN Reject(r, "add", 401)
     ELSE IF productId = NoProductId \/ quantity = 0 \/ quantity <= 0
          THEN Reject(r, "add", 400)
          ELSE Begin(r, "add", tok.id, productId, quantity, "add_save")

\* cart.products[index].quantity += quantity, on the document as it was read.
Merged(lines, index, quantity) == lines[index].quantity + quantity

\* An increment of the stored quantity, in place of a write of the one read.
PostCartSaveInc(r) ==
  LET l == loc[r]
      c == l.cart
      oid == CastObjectId(l.productId)
      index == FindIndex(l.products, l.productId)
      accepted == TRUE
  IN
  /\ pc[r] = "add_save"
  /\ UNCHANGED <<catVars, orders, ordered, halfDone>>
  /\ Respond(r)
  /\ carts' =
       IF c = 0
       THEN Append(carts, [user |-> l.user, products |-> <<Line(oid, l.quantity)>>, v |-> 0])
       ELSE IF index > 0
            THEN [carts EXCEPT ![c].products[index].quantity = @ + l.quantity]
            ELSE [carts EXCEPT ![c].products = Append(@, Line(oid, l.quantity)),
                               ![c].v = @ + 1]
  /\ loc' = [loc EXCEPT ![r].status = IF accepted THEN 200 ELSE 500,
                        ![r].cart = IF c = 0 THEN Len(carts) + 1 ELSE c]
  /\ acked' = IF accepted
              THEN [acked EXCEPT ![l.user][oid] = @ + l.quantity]
              ELSE acked
  /\ lastAdd' = [lastAdd EXCEPT ![l.user] =
                   IF accepted /\ l.alone
                   THEN [product |-> oid, quantity |-> l.quantity,
                         fresh |-> CountOf(l.products, oid) = 0]
                   ELSE NoAdd]

\* Lines 287-299: the change to the document in memory, cart.save(), res.json.
PostCartSave(r) ==
  LET l == loc[r]
      c == l.cart
      oid == CastObjectId(l.productId)
      index == FindIndex(l.products, l.productId)
      accepted == c = 0 \/ index = 0 \/ carts[c].v = l.v
  IN
  /\ pc[r] = "add_save"
  /\ UNCHANGED <<catVars, orders, ordered, halfDone>>
  /\ Respond(r)
  /\ carts' =
       IF c = 0
       THEN Append(carts, [user |-> l.user, products |-> <<Line(oid, l.quantity)>>, v |-> 0])
       ELSE IF index > 0
            THEN IF carts[c].v = l.v
                 THEN [carts EXCEPT ![c].products[index].quantity =
                                      Merged(l.products, index, l.quantity)]
                 ELSE carts
            ELSE [carts EXCEPT ![c].products = Append(@, Line(oid, l.quantity)),
                               ![c].v = @ + 1]
  /\ loc' = [loc EXCEPT ![r].status = IF accepted THEN 200 ELSE 500,
                        ![r].cart = IF c = 0 THEN Len(carts) + 1 ELSE c]
  /\ acked' = IF accepted
              THEN [acked EXCEPT ![l.user][oid] = @ + l.quantity]
              ELSE acked
  /\ lastAdd' = [lastAdd EXCEPT ![l.user] =
                   IF accepted /\ l.alone
                   THEN [product |-> oid, quantity |-> l.quantity,
                         fresh |-> CountOf(l.products, oid) = 0]
                   ELSE NoAdd]

\* ------------------------------------- DELETE /api/cart/:productId (removeLine)
\* Lines 317-320: auth, Cart.findOne, 404 without a cart.
DeleteCartFind(r, tok, productId) ==
  /\ Free(r)
  /\ ops < MaxOps
  /\ productId # NoProductId
  /\ UNCHANGED catDb
  /\ IF auth(tok) # 0 THEN Reject(r, "remove", 401)
     ELSE IF FindOneCart(tok.id) = 0
          THEN Reject(r, "remove", 404)
          ELSE Begin(r, "remove", tok.id, productId, 0, "rm_save")

\* Lines 322-324: the filter, cart.save(), res.json.
DeleteCartSave(r) ==
  LET l == loc[r]
      c == l.cart
      kept == Filter(l.products, l.productId)
      changed == kept # l.products
      accepted == ~changed \/ carts[c].v = l.v
  IN
  /\ pc[r] = "rm_save"
  /\ UNCHANGED <<catVars, orders, halfDone>>
  /\ Respond(r)
  /\ carts' = IF changed /\ accepted
              THEN [carts EXCEPT ![c].products = kept, ![c].v = @ + 1]
              ELSE carts
  /\ loc' = [loc EXCEPT ![r].status = IF accepted THEN 200 ELSE 500]
  /\ acked' = IF changed /\ accepted
              THEN [acked EXCEPT ![l.user][l.productId] = 0]
              ELSE acked
  /\ ordered' = IF changed /\ accepted
                THEN [ordered EXCEPT ![l.user][l.productId] = 0]
                ELSE ordered
  /\ lastAdd' = [lastAdd EXCEPT ![l.user] = NoAdd]

\* ---------------------------------------------- POST /api/orders (placeOrder)
\* Lines 375-380: auth, Cart.findOne, 400 on no cart or an empty one.
PostOrdersFind(r, tok) ==
  /\ Free(r)
  /\ ops < MaxOps
  /\ UNCHANGED catDb
  /\ IF auth(tok) # 0 THEN Reject(r, "order", 401)
     ELSE LET c == FindOneCart(tok.id) IN
          IF CartIsEmpty(c, IF c = 0 THEN <<>> ELSE carts[c].products)
          THEN Reject(r, "order", 400)
          ELSE Begin(r, "order", tok.id, NoProductId, 0, "po_order")

\* The order saved and the cart cleared in one step.
PostOrdersSaveBoth(r) ==
  LET l == loc[r]
      items == OrderItems(l.products)
  IN
  /\ pc[r] = "po_order"
  /\ UNCHANGED <<catVars, ops, acked, halfDone>>
  /\ orders' = Append(orders, [user |-> l.user, items |-> items])
  /\ carts' = [carts EXCEPT ![l.cart].products = <<>>, ![l.cart].v = @ + 1]
  /\ pc' = [pc EXCEPT ![r] = "idle"]
  /\ loc' = [loc EXCEPT ![r].order = Len(orders) + 1, ![r].status = 201]
  /\ ordered' = [ordered EXCEPT ![l.user] =
                   [oid \in ObjectIds |-> @[oid] + QtyOf(items, oid)]]
  /\ lastAdd' = [lastAdd EXCEPT ![l.user] = NoAdd]

\* Lines 382-390: new Order from the cart as it was read, order.save().
PostOrdersSaveOrder(r) ==
  LET l == loc[r]
      items == OrderItems(l.products)
  IN
  /\ pc[r] = "po_order"
  /\ UNCHANGED <<catVars, carts, ops, acked, halfDone>>
  /\ orders' = Append(orders, [user |-> l.user, items |-> items])
  /\ pc' = [pc EXCEPT ![r] = "po_clear"]
  /\ loc' = [loc EXCEPT ![r].order = Len(orders) + 1]
  /\ ordered' = [ordered EXCEPT ![l.user] =
                   [oid \in ObjectIds |-> @[oid] + QtyOf(items, oid)]]
  /\ lastAdd' = [lastAdd EXCEPT ![l.user] = NoAdd]

\* Lines 391-394: cart.products = [], cart.save(), res.status(201).
PostOrdersSaveCart(r) ==
  LET l == loc[r]
      c == l.cart
      accepted == carts[c].v = l.v
  IN
  /\ pc[r] = "po_clear"
  /\ UNCHANGED <<catVars, orders, acked, ordered>>
  /\ Respond(r)
  /\ carts' = IF accepted
              THEN [carts EXCEPT ![c].products = <<>>, ![c].v = @ + 1]
              ELSE carts
  /\ loc' = [loc EXCEPT ![r].status = IF accepted THEN 201 ELSE 500]
  /\ halfDone' = IF accepted THEN halfDone ELSE halfDone \cup {l.order}
  /\ lastAdd' = [lastAdd EXCEPT ![l.user] = NoAdd]

\* Lines 392 and 395-398: cart.save() rejects for a reason of the database (it
\* is unreachable, the process is stopped), after the order is saved.
PostOrdersSaveCartFails(r) ==
  /\ pc[r] = "po_clear"
  /\ UNCHANGED <<catVars, carts, orders, acked, ordered>>
  /\ Respond(r)
  /\ loc' = [loc EXCEPT ![r].status = 500]
  /\ halfDone' = halfDone \cup {loc[r].order}
  /\ lastAdd' = [lastAdd EXCEPT ![loc[r].user] = NoAdd]

\* ===================================================== users and catalog
\* Requests issued in one behaviour of the catalog routes.
MaxCatOps == 3

Emails == {"a@x", "b@x"}
NoRole == "undefined"
RoleInputs == {NoRole, "buyer", "admin", "poster", "superuser"}
PasswordInputs == {"pw", "other"}
\* The _id of the i-th user document.
UserIdAt(i) == IF i = 1 THEN "u1" ELSE "u2"

\* bcrypt.hash, and bcrypt.compare of a password with a stored hash.
Hash(password) == <<"hash", password>>
Compare(password, hashed) == Hash(password) = hashed

\* userSchema.role: { type: String, default: "buyer" }.  A String path with a
\* default and no enum: an absent role becomes "buyer", any other string stays.
UserRole(role) == IF role = NoRole THEN "buyer" ELSE role

\* User.findOne({ email }): the index of the document, 0 when there is none.
FindOneUser(email) ==
  IF \E i \in 1..Len(users) : users[i].email = email
  THEN CHOOSE i \in 1..Len(users) : users[i].email = email
  ELSE 0

\* A check against the one role to keep out, in place of the roles to let in.
AuthorizedNotBuyer(role) == role # "buyer"

\* !["admin", "poster"].includes(req.user.role) is the 403.
Authorized(role) == role \in {"admin", "poster"}

\* JSON values of a body field, written as their JSON text.
JsonInputs == {"true", "false", "\"true\"", "1", "undefined"}

\* featured === true || featured === "true" || featured === 1 || featured === "1"
IsFeatured(featured) == featured \in {"true", "\"true\"", "1", "\"1\""}

\* typeof featured === "boolean"
IsBoolean(featured) == featured \in {"true", "false"}

\* The response of a request that is handled without another request between.
Answer(op, role, ok, code) ==
  /\ last' = [op |-> op, role |-> role, ok |-> ok, status |-> code]
  /\ ops' = ops + 1

\* req.user.role, which auth sets when the token verifies.
RoleOf(tok) == IF auth(tok) # 0 THEN "none" ELSE tok.role

\* The 401 of auth, then the 403 of the role check, 0 when both pass.
Gate(tok) == IF auth(tok) # 0 THEN auth(tok)
             ELSE IF ~Authorized(tok.role) THEN 403
             ELSE 0

\* ------------------------------------------------------ POST /api/register
\* Lines 117-125: the required fields, User.findOne({ email }).
PostRegisterFind(r, fields, email, role) ==
  /\ reg[r].pc = "idle"
  /\ \A s \in 1..(r - 1) : reg[s].pc # "idle"
  /\ ops < MaxCatOps
  /\ ops' = ops + 1
  /\ UNCHANGED <<users, tokens, products, banners, dbVars, pc, loc, histVars>>
  /\ IF ~fields \/ FindOneUser(email) # 0
     THEN /\ last' = [op |-> "register", role |-> role, ok |-> fields, status |-> 400]
          /\ reg' = reg
     ELSE /\ reg' = [reg EXCEPT ![r] = [pc |-> "save", email |-> email, role |-> role]]
          /\ last' = last

\* Lines 127-134: bcrypt.hash, new User, user.save() under the unique index on
\* email, 201; a duplicate key is caught and answered 400.
PostRegisterSave(r) ==
  LET duplicate == FindOneUser(reg[r].email) # 0 IN
  /\ reg[r].pc = "save"
  /\ UNCHANGED <<tokens, products, banners, cartVars>>
  /\ reg' = [reg EXCEPT ![r] = NoRegister]
  /\ users' = IF duplicate THEN users
              ELSE Append(users, [email |-> reg[r].email, password |-> Hash("pw"),
                                  role |-> UserRole(reg[r].role)])
  /\ last' = [op |-> "register", role |-> reg[r].role, ok |-> TRUE,
              status |-> IF duplicate THEN 400 ELSE 201]

\* --------------------------------------------------------- POST /api/login
\* Lines 137-159.
PostLogin(email, password) ==
  LET i == FindOneUser(email) IN
  /\ ops < MaxCatOps
  /\ UNCHANGED <<users, products, banners, reg, dbVars, pc, loc, histVars>>
  /\ IF i = 0 \/ ~Compare(password, users[i].password)
     THEN /\ Answer("login", "none", i # 0, 400)
          /\ tokens' = tokens
     ELSE /\ Answer("login", users[i].role, TRUE, 200)
          /\ tokens' = tokens \cup {[id |-> UserIdAt(i), role |-> users[i].role,
                                      valid |-> TRUE]}

\* ------------------------------------------------------ POST /api/products
\* Lines 184-211.
PostProducts(tok, nameAndPrice, featured) ==
  /\ ops < MaxCatOps
  /\ UNCHANGED <<users, tokens, banners, reg, dbVars, pc, loc, histVars>>
  /\ IF Gate(tok) # 0
     THEN Answer("createProduct", RoleOf(tok), nameAndPrice, Gate(tok)) /\ products' = products
     ELSE IF ~nameAndPrice
          THEN Answer("createProduct", RoleOf(tok), FALSE, 400) /\ products' = products
          ELSE /\ Answer("createProduct", RoleOf(tok), TRUE, 201)
               /\ products' = Append(products, [exists |-> TRUE,
                                                featured |-> IsFeatured(featured),
                                                createdBy |-> tok.id])

\* ------------------------------------------ PUT /api/products/:id/featured
\* Lines 213-237.
PutProductsFeatured(tok, id, featured) ==
  LET found == id \in 1..Len(products) /\ products[id].exists IN
  /\ ops < MaxCatOps
  /\ UNCHANGED <<users, tokens, banners, reg, dbVars, pc, loc, histVars>>
  /\ IF Gate(tok) # 0
     THEN Answer("setFeatured", RoleOf(tok), found /\ IsBoolean(featured), Gate(tok))
          /\ products' = products
     ELSE IF ~IsBoolean(featured)
          THEN Answer("setFeatured", RoleOf(tok), FALSE, 400) /\ products' = products
          ELSE IF ~found
               THEN Answer("setFeatured", RoleOf(tok), FALSE, 404) /\ products' = products
               ELSE /\ Answer("setFeatured", RoleOf(tok), TRUE, 200)
                    /\ products' = [products EXCEPT ![id].featured = (featured = "true")]

\* ------------------------------------------------ DELETE /api/products/:id
\* Lines 239-253.
DeleteProducts(tok, id) ==
  LET found == id \in 1..Len(products) /\ products[id].exists IN
  /\ ops < MaxCatOps
  /\ UNCHANGED <<users, tokens, banners, reg, dbVars, pc, loc, histVars>>
  /\ IF Gate(tok) # 0
     THEN Answer("deleteProduct", RoleOf(tok), found, Gate(tok)) /\ products' = products
     ELSE IF ~found
          THEN Answer("deleteProduct", RoleOf(tok), FALSE, 404) /\ products' = products
          ELSE /\ Answer("deleteProduct", RoleOf(tok), TRUE, 200)
               /\ products' = [products EXCEPT ![id].exists = FALSE]

\* -------------------------------------------------------- POST /api/banner
\* Lines 345-370.
PostBanner(tok, image, active, order) ==
  /\ ops < MaxCatOps
  /\ UNCHANGED <<users, tokens, products, reg, dbVars, pc, loc, histVars>>
  /\ IF Gate(tok) # 0
     THEN Answer("createBanner", RoleOf(tok), image, Gate(tok)) /\ banners' = banners
     ELSE IF ~image
          THEN Answer("createBanner", RoleOf(tok), FALSE, 400) /\ banners' = banners
          ELSE /\ Answer("createBanner", RoleOf(tok), TRUE, 201)
               /\ banners' = Append(banners,
                     [active |-> IF active # "undefined" THEN active = "true" ELSE TRUE,
                      order |-> IF order = 0 THEN 0 ELSE order])

\* ------------------------------------------------------------ specification
\* The Cart collection the server finds when it starts: empty, or the cart
\* one addOrMerge of u1 has left, or the cart two have left.
InitialCarts ==
  { <<>>,
    <<[user |-> "u1", products |-> <<Line("p1", 1)>>, v |-> 0]>>,
    <<[user |-> "u1", products |-> <<Line("p1", 1), Line("p2", 2)>>, v |-> 1]>> }

\* The cart and order routes, with two registered users holding the tokens
\* their logins returned and no order placed yet.
Init ==
  /\ users = <<[email |-> "a@x", password |-> <<"hash", "pw">>, role |-> "buyer"],
               [email |-> "b@x", password |-> <<"hash", "pw">>, role |-> "buyer"]>>
  /\ tokens = {[id |-> u, role |-> "buyer", valid |-> TRUE] : u \in UserIds}
  /\ products = <<>>
  /\ banners = <<>>
  /\ last = NoResponse
  /\ reg = [r \in Reqs |-> NoRegister]
  /\ carts \in InitialCarts
  /\ orders = <<>>
  /\ pc = [r \in Reqs |-> "idle"]
  /\ loc = [r \in Reqs |-> Idle]
  /\ ops = 0
  /\ lastAdd = [u \in UserIds |-> NoAdd]
  /\ acked = [u \in UserIds |-> [oid \in ObjectIds |->
                IF carts # <<>> /\ u = "u1" THEN QtyOf(carts[1].products, oid) ELSE 0]]
  /\ ordered = [u \in UserIds |-> [oid \in ObjectIds |-> 0]]
  /\ halfDone = {}

TokenInputs == {NoToken, BadToken} \cup tokens

Next ==
  \E r \in Reqs :
    \/ \E tok \in TokenInputs, productId \in ProductIdInputs, quantity \in QuantityInputs :
         PostCartFind(r, tok, productId, quantity)
    \/ PostCartSave(r)
    \/ \E tok \in TokenInputs, productId \in ProductIdInputs :
         DeleteCartFind(r, tok, productId)
    \/ DeleteCartSave(r)
    \/ \E tok \in TokenInputs : PostOrdersFind(r, tok)
    \/ PostOrdersSaveOrder(r)
    \/ PostOrdersSaveCart(r)
    \/ PostOrdersSaveCartFails(r)

Spec == Init /\ [][Next]_vars

\* The User collection the server finds when it starts: empty, or holding
\* one poster.
InitialUsers ==
  { <<>>, <<[email |-> "a@x", password |-> Hash("pw"), role |-> "poster"]>> }

\* The register, login, catalog and banner routes, with no token issued yet.
InitCatalog ==
  /\ users \in InitialUsers
  /\ tokens = {}
  /\ products = <<>>
  /\ banners = <<>>
  /\ last = NoResponse
  /\ reg = [r \in Reqs |-> NoRegister]
  /\ carts = <<>>
  /\ orders = <<>>
  /\ pc = [r \in Reqs |-> "idle"]
  /\ loc = [r \in Reqs |-> Idle]
  /\ ops = 0
  /\ lastAdd = [u \in UserIds |-> NoAdd]
  /\ acked = [u \in UserIds |-> [oid \in ObjectIds |-> 0]]
  /\ ordered = [u \in UserIds |-> [oid \in ObjectIds |-> 0]]
  /\ halfDone = {}

NextCatalog ==
  \/ \E r \in Reqs, fields \in BOOLEAN, email \in Emails, role \in RoleInputs :
       PostRegisterFind(r, fields, email, role)
  \/ \E r \in Reqs : PostRegisterSave(r)
  \/ \E email \in Emails, password \in PasswordInputs : PostLogin(email, password)
  \/ \E tok \in TokenInputs, nameAndPrice \in BOOLEAN, featured \in JsonInputs :
       PostProducts(tok, nameAndPrice, featured)
  \/ \E tok \in TokenInputs, id \in 1..(Len(products) + 1), featured \in JsonInputs :
       PutProductsFeatured(tok, id, featured)
  \/ \E tok \in TokenInputs, id \in 1..(Len(products) + 1) : DeleteProducts(tok, id)
  \/ \E tok \in TokenInputs, image \in BOOLEAN, active \in {"undefined", "true", "false"},
         order \in {0, 1} :
       PostBanner(tok, image, active, order)

SpecCatalog == InitCatalog /\ [][NextCatalog]_vars

\* ================================================================ claims
\* Request r has finished, as `kind`, with the response `code`.
Done(r, kind, code) == pc[r] = "idle" /\ loc[r].kind = kind /\ loc[r].status = code
\* The step in which request r leaves `from` with the response `code`.
Finishes(r, from, code) == pc[r] = from /\ pc'[r] = "idle" /\ loc'[r].status = code

\* C1: two successful addOrMerge calls of a user for one product, run one
\* after the other with no other cart operation of the user between them,
\* the first on a cart without the product, leave the cart with exactly one
\* line for the product, of quantity a + b.
C1_SequentialMerge ==
  [][\A r \in Reqs :
       LET u == loc[r].user
           oid == CastObjectId(loc[r].productId)
       IN
       (/\ Finishes(r, "add_save", 200)
        /\ loc[r].alone
        /\ lastAdd[u].fresh
        /\ lastAdd[u].product = oid)
       => /\ CountOf(carts'[loc'[r].cart].products, oid) = 1
          /\ QtyOf(carts'[loc'[r].cart].products, oid)
               = lastAdd[u].quantity + loc[r].quantity]_vars

\* C2: a placeOrder that runs to completion with no other request of the user
\* interleaved creates an order owned by the user whose items are the lines
\* the cart held before the call, and leaves the cart in place with no line.
C2_OrderIsCartSnapshot ==
  [][\A r \in Reqs :
       (Finishes(r, "po_clear", 201) /\ loc[r].alone)
       => LET c == loc[r].cart
              o == orders'[loc[r].order]
          IN /\ o.user = loc[r].user
             /\ Len(carts[c].products) >= 1
             /\ o.items = carts[c].products
             /\ Len(carts') = Len(carts)
             /\ carts'[c].user = loc[r].user
             /\ carts'[c].products = <<>>]_vars

\* An order of two different lines placed on its own, its cart left empty.
C2_Witness ==
  \E r \in Reqs :
    /\ Done(r, "order", 201)
    /\ loc[r].alone
    /\ Len(orders[loc[r].order].items) = 2
    /\ orders[loc[r].order].items[1] # orders[loc[r].order].items[2]
    /\ carts[loc[r].cart].products = <<>>

\* C3: every stored order has at least one item; a placeOrder request goes on
\* to create an order only on a cart that exists and has a line, and the 400
\* it answers otherwise creates no order and changes no cart.
C3_NoOrderFromEmptyCart ==
  /\ [](\A i \in 1..Len(orders) : Len(orders[i].items) >= 1)
  /\ [][\A r \in Reqs :
          (pc[r] = "idle" /\ pc'[r] = "po_order")
          => LET c == FindOneCart(loc'[r].user) IN
             c # 0 /\ carts[c].products # <<>>]_vars
  /\ [][(ops' # ops /\ last'.op = "order" /\ last'.status = 400)
        => (carts' = carts /\ orders' = orders)]_vars

\* A placeOrder answered 400 on a cart an earlier order has emptied.
C3_Witness ==
  /\ last.op = "order"
  /\ last.status = 400
  /\ \E c \in 1..Len(carts) : carts[c].products = <<>>
  /\ Len(orders) >= 1

\* The role-gated operations, and the products that have not been deleted.
GatedOps == {"createProduct", "setFeatured", "deleteProduct", "createBanner"}
Existing(ps) == {i \in 1..Len(ps) : ps[i].exists}

\* C4: a role-gated request (create product, set featured, delete product,
\* create banner) with a valid token whose role is neither "admin" nor
\* "poster" is answered 403 and changes neither products nor banners; with
\* role "admin" or "poster" and otherwise valid input it succeeds.
C4_RoleGate ==
  [][(ops' # ops /\ reg' = reg /\ last'.op \in GatedOps /\ last'.role # "none")
     => IF last'.role \notin {"admin", "poster"}
        THEN last'.status = 403 /\ products' = products /\ banners' = banners
        ELSE last'.ok
             => /\ last'.status \in {200, 201}
                /\ last'.op = "createProduct" => Len(products') = Len(products) + 1
                /\ last'.op = "createBanner" => Len(banners') = Len(banners) + 1
                /\ last'.op = "deleteProduct"
                     => Cardinality(Existing(products')) = Cardinality(Existing(products)) - 1
       ]_vars

\* A buyer's valid, well-formed request to a gated route, answered 403.
C4_Witness ==
  /\ last.op \in GatedOps
  /\ last.role = "buyer"
  /\ last.ok
  /\ last.status = 403

\* C5: there is at most one cart document per user.
C5_OneCartPerUser ==
  \A i, j \in 1..Len(carts) : carts[i].user = carts[j].user => i = j

\* C6: within a cart, each product is in at most one line.
C6_UniqueProductPerCart ==
  \A c \in 1..Len(carts) : \A oid \in ObjectIds : CountOf(carts[c].products, oid) <= 1

\* Two concurrent adds of one product, both accepted, as two lines.
C6_ConcurrentDuplicate ==
  \E r1, r2 \in Reqs :
    /\ r1 # r2
    /\ Done(r1, "add", 200) /\ Done(r2, "add", 200)
    /\ loc[r1].productId = loc[r2].productId
    /\ loc[r1].productId \in ObjectIds
    /\ loc[r1].cart = loc[r2].cart
    /\ loc[r1].products = loc[r2].products
    /\ loc[r1].products # <<>>
    /\ CountOf(carts[loc[r1].cart].products, loc[r1].productId) = 2

\* C7: every stored user's role is "buyer", "admin" or "poster".
C7_RoleEnumerated ==
  \A i \in 1..Len(users) : users[i].role \in {"buyer", "admin", "poster"}

\* C8: an addOrMerge on an existing line writes the quantity it read plus its
\* own amount, whatever the stored quantity has become since the read; two
\* concurrent calls can both succeed with one increment lost.
C8_WritesWhatItRead ==
  [][\A r \in Reqs :
       LET c == loc[r].cart
           index == FindIndex(loc[r].products, loc[r].productId)
       IN
       (Finishes(r, "add_save", 200) /\ c # 0 /\ index > 0)
       => carts'[c].products[index].quantity
            = loc[r].products[index].quantity + loc[r].quantity]_vars

\* Two accepted merges that read the same line, one increment lost.
C8_LostUpdate ==
  \E r1, r2 \in Reqs :
    LET c == loc[r1].cart
        index == FindIndex(loc[r1].products, loc[r1].productId)
    IN
    /\ r1 # r2
    /\ Done(r1, "add", 200) /\ Done(r2, "add", 200)
    /\ loc[r1].user = loc[r2].user
    /\ c # 0 /\ loc[r2].cart = c
    /\ index > 0
    /\ FindIndex(loc[r2].products, loc[r2].productId) = index
    /\ loc[r1].products = loc[r2].products
    /\ carts[c].products[index].quantity
         < loc[r1].products[index].quantity + loc[r1].quantity + loc[r2].quantity

\* C9: placeOrder saves the order in one step and clears the cart in a later
\* one: the step that records an order changes no cart, the order of a request
\* that has yet to clear the cart is already stored, and a request that stops
\* between the two steps leaves the order stored and the cart as it was, so
\* that a retry records a second order with the same items.
C9_PersistThenClear ==
  /\ [](\A r \in Reqs :
          pc[r] = "po_clear"
          => /\ loc[r].order \in 1..Len(orders)
             /\ orders[loc[r].order].user = loc[r].user
             /\ orders[loc[r].order].items = loc[r].products)
  /\ [][orders' # orders => carts' = carts]_vars
  /\ [][\A r \in Reqs :
          (pc[r] = "po_order" /\ pc'[r] # "po_order") => pc'[r] = "po_clear"]_vars
  /\ [][\A r \in Reqs :
          Finishes(r, "po_clear", 500) => carts' = carts /\ orders' = orders]_vars

\* The order of a request that stopped before the clear, recorded again by
\* a later placeOrder that succeeded.
C9_DuplicateOrder ==
  \E i \in halfDone : \E r \in Reqs :
    /\ Done(r, "order", 201)
    /\ loc[r].order > i
    /\ orders[loc[r].order] = orders[i]

\* The quantity of a product in the carts of a user.
RECURSIVE CartQty(_, _, _)
CartQty(cs, u, oid) ==
  IF cs = <<>> THEN 0
  ELSE (IF Head(cs).user = u THEN QtyOf(Head(cs).products, oid) ELSE 0)
       + CartQty(Tail(cs), u, oid)

\* C10: once no request is in flight, and none has stopped between saving an
\* order and clearing the cart, the quantity of a product accepted by
\* the successful addOrMerge calls of a user since the product was last
\* removed is the quantity in the user's carts plus the quantity in the
\* user's orders created since then.
C10_NoAcceptedAddDropped ==
  ((\A r \in Reqs : pc[r] = "idle") /\ halfDone = {})
  => \A u \in UserIds : \A oid \in ObjectIds :
       acked[u][oid] = CartQty(carts, u, oid) + ordered[u][oid]

\* An accepted add that the clearing of the cart has dropped.
C10_DroppedByOrder ==
  \E r1, r2 \in Reqs :
    LET oid == CastObjectId(loc[r2].productId) IN
    /\ Done(r1, "order", 201) /\ Done(r2, "add", 200)
    /\ loc[r1].user = loc[r2].user
    /\ loc[r1].cart = loc[r2].cart
    /\ carts[loc[r1].cart].products = <<>>
    /\ acked[loc[r1].user][oid] > ordered[loc[r1].user][oid]

=============================================================================
